---- MODULE Spec2Model ----
(***************************************************************************)
(* Model of SpatialLineCluster (spatial_line_cluster.py): a caller holds a *)
(* table of line geometries, optionally turns it into a GeoDataFrame       *)
(* (build_geodataframe) and runs process_clustering on it, which enriches  *)
(* a copy with utm_epsg / len_mt (add_utm_projection_metrics) and labels   *)
(* it with parking_id (group_geometries_by_proximity).                     *)
(*                                                                         *)
(* Geometry is modelled on the corners of the unit square: a geometry is   *)
(* its vertex sequence, empty (<<>>), a point (one vertex) or the bottom   *)
(* side of the square (two vertices).  Such shapes are equal to their      *)
(* bounding box, so the separation of two of them is computed exactly in   *)
(* integers.                                                               *)
(* Row positions are 0-based as in pandas; index labels are integers.      *)
(***************************************************************************)
EXTENDS Integers, Sequences, FiniteSets

\* ---------------------------------------------------------------- bounds
MaxRows == 3
MaxTol == 2

\* Scale of the metric projection in the model: one unit of a geographic
\* coordinate is MetersPerUnit metres after to_crs (about 111 000 in reality).
MetersPerUnit == 2

\* A cell without a value (a missing column, NaN) is <<>>, a value v is <<v>>.
NA == << >>
Val(v) == <<v>>
NoCrs == "None"
Geographic == "EPSG:4326"
Projected == "EPSG:32631"
CrsArgs == {NoCrs, Geographic, Projected}

Tolerances == (0 - 1)..MaxTol

\* ------------------------------------------------------------- geometries
Grid == (0..1) \X (0..1)
EmptyGeom == << >>
Geoms ==
  {EmptyGeom}
    \cup {<<p>> : p \in Grid}
    \cup {<<p, <<p[1] + 1, p[2]>>>> : p \in {q \in Grid : q[1] < 1 /\ q[2] < 1}}

Abs(n) == IF n < 0 THEN 0 - n ELSE n
SetMin(S) == CHOOSE m \in S : \A x \in S : m <= x
SetMax(S) == CHOOSE m \in S : \A x \in S : m >= x

\* BaseGeometry.bounds: (minx, miny, maxx, maxy); NaN for an empty geometry.
NaNBounds == [nan |-> TRUE, minx |-> 0, miny |-> 0, maxx |-> 0, maxy |-> 0]
Bounds(g) ==
  IF g = EmptyGeom THEN NaNBounds
  ELSE LET xs == {g[k][1] : k \in 1..Len(g)}
           ys == {g[k][2] : k \in 1..Len(g)}
       IN [nan |-> FALSE, minx |-> SetMin(xs), miny |-> SetMin(ys),
           maxx |-> SetMax(xs), maxy |-> SetMax(ys)]

\* BaseGeometry.length in the units of the coordinates (axis-aligned steps).
GeomLength(g) ==
  IF Len(g) < 2 THEN 0
  ELSE Abs(g[2][1] - g[1][1]) + Abs(g[2][2] - g[1][2])

Gap(lo1, hi1, lo2, hi2) ==
  IF lo2 > hi1 THEN lo2 - hi1 ELSE IF lo1 > hi2 THEN lo1 - hi2 ELSE 0

\* Squared minimum separation of two non-empty geometries.
Dist2(g, h) ==
  LET a == Bounds(g)
      b == Bounds(h)
      dx == Gap(a.minx, a.maxx, b.minx, b.maxx)
      dy == Gap(a.miny, a.maxy, b.miny, b.maxy)
  IN dx * dx + dy * dy

\* geom.buffer(t).bounds: the box grown by t; a buffer of distance <= 0 of a
\* point or a line is the empty polygon, whose bounds are NaN.
BufferBounds(g, t) ==
  IF g = EmptyGeom \/ t <= 0 THEN NaNBounds
  ELSE LET b == Bounds(g)
       IN [nan |-> FALSE, minx |-> b.minx - t, miny |-> b.miny - t,
           maxx |-> b.maxx + t, maxy |-> b.maxy + t]

\* geom.buffer(t).touches(h): the slip of testing the boundary only.
BufferTouches(g, t, h) ==
  /\ t > 0
  /\ g # EmptyGeom
  /\ h # EmptyGeom
  /\ Dist2(g, h) = t * t

\* geom.buffer(t).intersects(h): the buffer is taken as the exact dilation
\* (shapely approximates its round corners by a polygon), so the test is
\* "separation <= t" for t > 0; the empty buffer of t <= 0 meets nothing.
BufferIntersects(g, t, h) ==
  /\ t > 0
  /\ g # EmptyGeom
  /\ h # EmptyGeom
  /\ Dist2(g, h) <= t * t

BoxesIntersect(a, b) ==
  /\ a.minx <= b.maxx
  /\ b.minx <= a.maxx
  /\ a.miny <= b.maxy
  /\ b.miny <= a.maxy

\* gdf.sindex.intersection(bbox): the POSITIONS of the rows whose bounding
\* box meets bbox; empty geometries are not indexed, a NaN box meets nothing.
SindexIntersection(rows, bbox) ==
  IF bbox.nan THEN {}
  ELSE {j \in DOMAIN rows :
          /\ rows[j].geometry # EmptyGeom
          /\ BoxesIntersect(Bounds(rows[j].geometry), bbox)}

\* ----------------------------------------------------------------- tables
\* A table: its class, its crs attribute and its rows by 0-based position.
\* A row: its index label, its geometry and the three derived columns.
Row(label, g) ==
  [label |-> label, geometry |-> g, utm_epsg |-> NA, len_mt |-> NA,
   parking_id |-> NA]
NoFrame == [kind |-> "None", crs |-> NoCrs, rows |-> << >>]
NRows(rows) == Cardinality(DOMAIN rows)
Labels(rows) == {rows[p].label : p \in DOMAIN rows}

\* Index labels a caller's table comes with: the default RangeIndex, the
\* same after a descending sort, a 1-based index, the index left by
\* filtering every other row of a larger table, and a negative index.
IndexSchemes == {"range", "reversed", "one_based", "filtered", "negative"}
IndexLabel(scheme, n, p) ==
  CASE scheme = "range" -> p
    [] scheme = "reversed" -> n - 1 - p
    [] scheme = "one_based" -> p + 1
    [] scheme = "filtered" -> 2 * p
    [] scheme = "negative" -> p - n

\* is_geodataframe
IsGeoDataFrame(df) == df.kind = "GeoDataFrame"

\* ------------------------------------------------------------- enrichment
\* GeoSeries.estimate_utm_crs for a geographic crs: the zone of the centre
\* of the bounds, 326xx north of the equator and 327xx south of it.
UtmEpsg(g) ==
  LET b == Bounds(g)
      zone == ((b.minx + b.maxx + 360) \div 12) + 1
  IN IF b.miny + b.maxy >= 0 THEN 32600 + zone ELSE 32700 + zone

\* determine_utm_and_reproject as add_utm_projection_metrics calls it: the
\* crs argument is never passed, so _crs is "EPSG:4326" whatever the table's
\* crs; the coordinates are read as degrees and the length is measured after
\* to_crs.  An empty geometry has NaN bounds and no UTM zone is found.
DetermineRaises(g) == g = EmptyGeom
DetermineUtmAndReproject(g) ==
  [utm_epsg |-> UtmEpsg(g), len_mt |-> MetersPerUnit * GeomLength(g)]

\* add_utm_projection_metrics: the two new columns of the copy, row by row.
EnrichRows(rows) ==
  [p \in DOMAIN rows |->
     LET m == DetermineUtmAndReproject(rows[p].geometry)
     IN [rows[p] EXCEPT !.utm_epsg = Val(m.utm_epsg), !.len_mt = Val(m.len_mt)]]

\* The object add_utm_projection_metrics writes to: gdf.copy(), a new object
\* (AliasInput is the slip of writing to the caller's table).
AliasInput == "df"
GdfCopyRef == "gdf_copy"

\* ------------------------------------------------------------------ graph
\* The loop of group_geometries_by_proximity: i is the row's index LABEL, j
\* a POSITION returned by the spatial index; the pair is kept when i < j,
\* geom_j is the geometry at position j, and the edge joins node i to node j.
ProximityEdges(rows, t) ==
  {{rows[p].label, j} : <<p, j>> \in
     {pj \in (DOMAIN rows) \X (DOMAIN rows) :
        /\ pj[2] \in SindexIntersection(rows, BufferBounds(rows[pj[1]].geometry, t))
        /\ rows[pj[1]].label < pj[2]
        /\ BufferIntersects(rows[pj[1]].geometry, t, rows[pj[2]].geometry)}}

RECURSIVE SortedSeq(_)
SortedSeq(S) ==
  IF S = {} THEN << >> ELSE <<SetMin(S)>> \o SortedSeq(S \ {SetMin(S)})

\* G.add_nodes_from(gdf.index) without the index: the slip of leaving the
\* isolated rows out of the graph.
NoInitialNodes(rows) == << >>
\* G.add_nodes_from(gdf.index): the labels in row order.
InitialNodes(rows) == [k \in 1..NRows(rows) |-> rows[k - 1].label]

\* The nodes of G in insertion order: the index labels, then the nodes that
\* add_edge created because they are no label.
GraphNodes(rows, edges) ==
  LET init == InitialNodes(rows)
      known == {init[k] : k \in 1..Len(init)}
  IN init \o SortedSeq((UNION edges) \ known)

RECURSIVE Reach(_, _)
Reach(edges, S) ==
  LET S2 == S \cup UNION {e \in edges : e \cap S # {}}
  IN IF S2 = S THEN S ELSE Reach(edges, S2)

\* list(nx.connected_components(G)): one set per component, in the order of
\* the first node of each.
RECURSIVE ConnectedComponents(_, _, _)
ConnectedComponents(nodes, edges, seen) ==
  IF nodes = << >> THEN << >>
  ELSE IF Head(nodes) \in seen
       THEN ConnectedComponents(Tail(nodes), edges, seen)
       ELSE LET c == Reach(edges, {Head(nodes)})
            IN <<c>> \o ConnectedComponents(Tail(nodes), edges, seen \cup c)

\* enumerate(components, 1): the slip of numbering the groups from 1.
GroupIdFromOne(k) == k
\* enumerate(components): the k-th component (k from 1) gets group id k - 1.
GroupId(k) == k - 1

\* The loop gdf.loc[list(nodes), "parking_id"] = group_id: .loc with a list
\* raises KeyError when a node is no index label; the groups before it have
\* been written to the local table by then.
RECURSIVE AssignGroups(_, _, _)
AssignGroups(rows, comps, k) ==
  IF k > Len(comps) THEN [status |-> "ok", rows |-> rows]
  ELSE IF ~(comps[k] \subseteq Labels(rows))
       THEN [status |-> "KeyError", rows |-> rows]
       ELSE AssignGroups(
              [p \in DOMAIN rows |->
                 IF rows[p].label \in comps[k]
                 THEN [rows[p] EXCEPT !.parking_id = Val(GroupId(k))]
                 ELSE rows[p]],
              comps, k + 1)

\* group_geometries_by_proximity(gdf, geometry_col_name, t) on given rows.
GroupGeometriesByProximity(rows, t) ==
  LET edges == ProximityEdges(rows, t)
      nodes == GraphNodes(rows, edges)
      comps == ConnectedComponents(nodes, edges, {})
      done == AssignGroups(rows, comps, 1)
  IN [status |-> done.status, rows |-> done.rows, nodes |-> nodes,
      edges |-> edges, components |-> comps, printed |-> Val(Len(comps))]

\* ------------------------------------------------------------------ state
VARIABLES
  frames,         \* the table objects: "df" the caller's, "gdf_copy" the copy
  call,           \* the last call: method, crs argument, tolerance argument
  gdf_projected,  \* what add_utm_projection_metrics returned (line 206)
  G,              \* the graph and its components (lines 149-168)
  printed,        \* the count written to the console (line 171)
  ret,            \* how the call ended and the objects it returned
  pc              \* "idle"; "built", "done" or "raised" once the caller stops

vars == <<frames, call, gdf_projected, G, printed, ret, pc>>

NoCall == [op |-> "none", crs |-> NoCrs, tol |-> NA]
NoGraph == [nodes |-> << >>, edges |-> {}, components |-> << >>, built |-> FALSE]
NoRet == [status |-> "none", returned |-> << >>]

\* The tables a caller starts from: a plain DataFrame, or a GeoDataFrame made
\* without a crs; a GeoDataFrame with a crs comes from build_geodataframe.
InputTables ==
  {[kind |-> k[1], crs |-> k[2],
    rows |-> [p \in 0..(n - 1) |-> Row(IndexLabel(scheme, n, p), gs[p])]] :
     <<k, n, scheme, gs>> \in
       {q \in {<<"DataFrame", NoCrs>>, <<"GeoDataFrame", NoCrs>>}
              \X (0..MaxRows) \X IndexSchemes
              \X UNION {[0..(m - 1) -> Geoms] : m \in 0..MaxRows} :
          DOMAIN q[4] = 0..(q[2] - 1)}}

Init ==
  /\ frames \in {[df |-> t, gdf_copy |-> NoFrame] : t \in InputTables}
  /\ call = NoCall
  /\ gdf_projected = NoFrame
  /\ G = NoGraph
  /\ printed = NA
  /\ ret = NoRet
  /\ pc = "idle"

\* build_geodataframe(df, col, crs=None): lines 19-20.
BuildRaises ==
  /\ pc = "idle"
  /\ call' = [op |-> "build_geodataframe", crs |-> NoCrs, tol |-> NA]
  /\ ret' = [status |-> "ValueError", returned |-> << >>]
  /\ pc' = "raised"
  /\ UNCHANGED <<frames, gdf_projected, G, printed>>

\* build_geodataframe on a plain DataFrame: lines 32-51.  The caller goes on
\* with the GeoDataFrame it gets back.
BuildConverts(crs) ==
  /\ pc = "idle"
  /\ crs # NoCrs
  /\ ~IsGeoDataFrame(frames.df)
  /\ frames' = [frames EXCEPT !.df = [@ EXCEPT !.kind = "GeoDataFrame", !.crs = crs]]
  /\ call' = [op |-> "build_geodataframe", crs |-> crs, tol |-> NA]
  /\ ret' = [status |-> "ok", returned |-> <<"df">>]
  /\ UNCHANGED <<gdf_projected, G, printed, pc>>

\* build_geodataframe on a GeoDataFrame: lines 52-53, the input comes back
\* as it is, the crs argument is not applied.
BuildReturnsInput(crs) ==
  /\ pc = "idle"
  /\ crs # NoCrs
  /\ IsGeoDataFrame(frames.df)
  /\ call' = [op |-> "build_geodataframe", crs |-> crs, tol |-> NA]
  /\ ret' = [status |-> "ok", returned |-> <<"df">>]
  /\ pc' = "built"
  /\ UNCHANGED <<frames, gdf_projected, G, printed>>

\* process_clustering on an empty table: what DataFrame.apply returns for no
\* rows need not have two columns, and the assignment of line 119 then
\* raises; the other outcome is ProcessClustering below.
ProcessEmptyFrameRaises(t) ==
  /\ pc = "idle"
  /\ IsGeoDataFrame(frames.df)
  /\ NRows(frames.df.rows) = 0
  /\ frames' = [frames EXCEPT ![GdfCopyRef] = frames.df]
  /\ call' = [op |-> "process_clustering", crs |-> NoCrs, tol |-> Val(t)]
  /\ ret' = [status |-> "ValueError", returned |-> << >>]
  /\ pc' = "raised"
  /\ UNCHANGED <<gdf_projected, G, printed>>

\* process_clustering when determine_utm_and_reproject raises for a row:
\* apply propagates it, nothing is assigned and nothing is returned.
ProcessEnrichRaises(t) ==
  /\ pc = "idle"
  /\ IsGeoDataFrame(frames.df)
  /\ \E p \in DOMAIN frames.df.rows : DetermineRaises(frames.df.rows[p].geometry)
  /\ frames' = [frames EXCEPT ![GdfCopyRef] = frames.df]
  /\ call' = [op |-> "process_clustering", crs |-> NoCrs, tol |-> Val(t)]
  /\ ret' = [status |-> "RuntimeError", returned |-> << >>]
  /\ pc' = "raised"
  /\ UNCHANGED <<gdf_projected, G, printed>>

\* process_clustering, lines 206-210: enrich a copy, group it in place,
\* return it.
ProcessClustering(t) ==
  /\ pc = "idle"
  /\ IsGeoDataFrame(frames.df)
  /\ \A p \in DOMAIN frames.df.rows : ~DetermineRaises(frames.df.rows[p].geometry)
  /\ \E enriched \in {[frames.df EXCEPT !.rows = EnrichRows(frames.df.rows)]} :
       \E out \in {GroupGeometriesByProximity(enriched.rows, t)} :
         /\ frames' = [frames EXCEPT ![GdfCopyRef] = [enriched EXCEPT !.rows = out.rows]]
         /\ gdf_projected' = enriched
         /\ G' = [nodes |-> out.nodes, edges |-> out.edges,
                  components |-> out.components, built |-> TRUE]
         /\ printed' = out.printed
         /\ ret' = [status |-> out.status,
                    returned |-> IF out.status = "ok" THEN <<GdfCopyRef>> ELSE << >>]
         /\ pc' = IF out.status = "ok" THEN "done" ELSE "raised"
  /\ call' = [op |-> "process_clustering", crs |-> NoCrs, tol |-> Val(t)]

Next ==
  \/ BuildRaises
  \/ \E crs \in CrsArgs : BuildConverts(crs)
  \/ \E crs \in CrsArgs : BuildReturnsInput(crs)
  \/ \E t \in Tolerances : ProcessEmptyFrameRaises(t)
  \/ \E t \in Tolerances : ProcessEnrichRaises(t)
  \/ \E t \in Tolerances : ProcessClustering(t)

Spec == Init /\ [][Next]_vars

\* ----------------------------------------------------------------- claims
Processed == call.op = "process_clustering"
Tol == call.tol[1]
InputRows == frames.df.rows
\* The rows of the table process_clustering returned (when pc = "done").
OutRows == frames[ret.returned[1]].rows
SeqRange(f) == {f[k] : k \in DOMAIN f}
\* The number of connected components of a graph, counted node by node.
ComponentCount(nodes, edges) == Cardinality({Reach(edges, {v}) : v \in nodes})
DefaultIndex(rows) == \A p \in DOMAIN rows : rows[p].label = p

\* C1 (partition property): when process_clustering returns, every input id
\* lies in exactly one group, carries that group's id, none is left without
\* one, and the groups hold nothing but input ids.
C1_Partition ==
  pc = "done" =>
    LET ids == Labels(InputRows)
        comps == G.components
    IN /\ Labels(OutRows) = ids
       /\ UNION SeqRange(comps) = ids
       /\ \A i \in ids : Cardinality({k \in DOMAIN comps : i \in comps[k]}) = 1
       /\ \A p \in DOMAIN OutRows :
            /\ OutRows[p].parking_id # NA
            /\ \E k \in DOMAIN comps :
                 /\ OutRows[p].label \in comps[k]
                 /\ OutRows[p].parking_id = Val(GroupId(k))
       /\ \A p, q \in DOMAIN OutRows :
            (OutRows[p].parking_id = OutRows[q].parking_id)
              <=> (\E k \in DOMAIN comps : {OutRows[p].label, OutRows[q].label} \subseteq comps[k])

\* A returned labelling of three records in two groups, one of them shared.
C1_Witness ==
  /\ pc = "done"
  /\ Tol > 0
  /\ NRows(OutRows) = 3
  /\ Len(G.components) = 2
  /\ G.edges # {}

\* C2 (metric grouping after reprojection), for a table in a geographic crs
\* with the default index and a positive tolerance: two records share a
\* cluster id exactly when a chain of records links them whose consecutive
\* separations in projected metres are <= the tolerance.
MetricEdges(rows, t) ==
  {{a, b} : <<a, b>> \in
     {ab \in (DOMAIN rows) \X (DOMAIN rows) :
        /\ ab[1] # ab[2]
        /\ MetersPerUnit * MetersPerUnit * Dist2(rows[ab[1]].geometry, rows[ab[2]].geometry)
             <= t * t}}
C2_MetricGrouping ==
  (pc = "done" /\ frames.df.crs = Geographic /\ DefaultIndex(InputRows) /\ Tol > 0) =>
    \A a, b \in DOMAIN OutRows :
      (OutRows[a].parking_id = OutRows[b].parking_id)
        <=> (b \in Reach(MetricEdges(InputRows, Tol), {a}))

\* C3 (symmetry), for a table whose coordinates are metres: two records whose
\* separation is <= the tolerance share a cluster id, whatever the row order
\* and the index labels.
C3_Symmetry ==
  (pc = "done" /\ frames.df.crs = Projected /\ Tol > 0) =>
    \A a, b \in DOMAIN OutRows :
      Dist2(OutRows[a].geometry, OutRows[b].geometry) <= Tol * Tol
        => OutRows[a].parking_id = OutRows[b].parking_id

\* C4 (monotonicity in tolerance): for the same enriched table and any
\* tolerance t2 >= the one used, grouping with t2 finds no more groups, and
\* when both calls return, records that share a cluster id still share one.
C4_Monotone ==
  (Processed /\ G.built) =>
    \A t2 \in Tolerances :
      t2 >= Tol =>
        LET o2 == GroupGeometriesByProximity(gdf_projected.rows, t2)
        IN /\ o2.printed[1] <= printed[1]
           /\ (pc = "done" /\ o2.status = "ok") =>
                \A a, b \in DOMAIN OutRows :
                  OutRows[a].parking_id = OutRows[b].parking_id
                    => o2.rows[a].parking_id = o2.rows[b].parking_id

\* Tolerance 1 leaves at least two groups which tolerance 2 merges.
C4_Witness ==
  /\ pc = "done"
  /\ Tol = 1
  /\ Len(G.components) >= 2
  /\ LET o2 == GroupGeometriesByProximity(gdf_projected.rows, 2)
     IN o2.status = "ok" /\ Len(o2.components) < Len(G.components)

\* C5 (non-positive tolerance): process_clustering of a non-empty table
\* (geographic crs, default index) with tolerance <= 0 fails, and before any processing: nothing enriched, no
\* graph, nothing returned.
C5_NonPositiveTolerance ==
  (Processed /\ Tol <= 0 /\ NRows(InputRows) > 0 /\ DefaultIndex(InputRows)
     /\ frames.df.crs = Geographic) =>
    /\ pc = "raised"
    /\ gdf_projected = NoFrame
    /\ ~G.built
    /\ ret.returned = << >>

\* C6 (mandatory crs): a call that is given no coordinate-system identifier
\* (build_geodataframe without crs, process_clustering with a positive
\* tolerance on a non-empty table, default index, without crs) fails, nothing is enriched
\* under an assumed crs.
C6_CrsMandatory ==
  /\ (call.op = "build_geodataframe" /\ call.crs = NoCrs) => pc = "raised"
  /\ (Processed /\ frames.df.crs = NoCrs /\ NRows(InputRows) > 0 /\ Tol > 0
        /\ DefaultIndex(InputRows)) =>
       (pc = "raised" /\ gdf_projected = NoFrame)

\* C7 (invalid geometry): when a record's geometry is empty or has fewer than
\* two vertices, process_clustering (positive tolerance, geographic crs,
\* default index) fails and
\* returns nothing.
C7_InvalidGeometry ==
  (Processed /\ Tol > 0 /\ DefaultIndex(InputRows) /\ frames.df.crs = Geographic
     /\ \E p \in DOMAIN InputRows : Len(InputRows[p].geometry) < 2) =>
    (pc = "raised" /\ ret.returned = << >>)

C9_EnrichmentKept ==
  [][(pc = "idle" /\ call'.op = "process_clustering" /\ pc' # "idle") =>
       /\ frames'.df = frames.df
       /\ pc' = "done" =>
            LET out == frames'[ret'.returned[1]]
                enr == gdf_projected'
            IN /\ out.kind = frames.df.kind
               /\ out.crs = frames.df.crs
               /\ DOMAIN out.rows = DOMAIN frames.df.rows
               /\ \A p \in DOMAIN out.rows :
                    /\ out.rows[p].label = frames.df.rows[p].label
                    /\ out.rows[p].geometry = frames.df.rows[p].geometry
                    /\ out.rows[p].utm_epsg = enr.rows[p].utm_epsg
                    /\ out.rows[p].len_mt = enr.rows[p].len_mt
                    /\ out.rows[p].utm_epsg = Val(UtmEpsg(frames.df.rows[p].geometry))
                    /\ enr.rows[p].parking_id = NA
                    /\ out.rows[p].parking_id # NA]_vars

\* A returned table of at least two rows, one of them a segment with a
\* positive length, while the caller's table has no derived column.
C9_Witness ==
  /\ pc = "done"
  /\ Tol > 0
  /\ G.edges # {}
  /\ NRows(OutRows) >= 2
  /\ \E p \in DOMAIN OutRows : OutRows[p].len_mt = Val(MetersPerUnit)
  /\ \A p \in DOMAIN InputRows : InputRows[p].len_mt = NA

\* C10 (the index prefilter loses nothing): the edges built are those of the
\* exact test over all unordered pairs of distinct records.
BruteForceEdges(rows, t) ==
  {{rows[a].label, rows[b].label} : <<a, b>> \in
     {ab \in (DOMAIN rows) \X (DOMAIN rows) :
        /\ ab[1] < ab[2]
        /\ BufferIntersects(rows[ab[1]].geometry, t, rows[ab[2]].geometry)}}
C10_EdgesAreBruteForce ==
  (Processed /\ G.built) => G.edges = BruteForceEdges(gdf_projected.rows, Tol)

\* The first half of C10 alone: every row whose geometry meets row p's
\* buffer is among the candidates the index returns for the buffer's box.
PrefilterLosesNothing ==
  (Processed /\ G.built) =>
    \A p, j \in DOMAIN InputRows :
      BufferIntersects(InputRows[p].geometry, Tol, InputRows[j].geometry)
        => j \in SindexIntersection(InputRows, BufferBounds(InputRows[p].geometry, Tol))

====
